---- MODULE Spec2Model ----
(***************************************************************************)
(* A model of github2/core.py: the date codec, the attribute descriptors,  *)
(* the record metaclass (BaseDataType) and the command dispatcher          *)
(* (GithubCommand) with its authentication guard.                          *)
(*                                                                         *)
(* Python values are tagged records, so that values of different Python    *)
(* types can be compared:  None, str (a sequence of one-character          *)
(* strings), datetime, dict, list, a record instance, or a raised          *)
(* exception.                                                              *)
(***************************************************************************)
EXTENDS Integers, Sequences, FiniteSets, TLC

VARIABLES
    \* --- date codec / descriptor conversions (SpecDate) ---
    dDesc,      \* the attribute descriptor under test
    dIn,        \* the Python value handed to the descriptor
    dStep,      \* how far the conversion pipeline has run
    dTo,        \* to_python(dIn)
    dAgain,     \* to_python(to_python(dIn))
    dFrom,      \* from_python(to_python(dIn))
    dRaw,       \* from_python(dIn)
    \* --- record types and instances (SpecRecord) ---
    cls,        \* the record type BaseDataType.__new__ built
    inst,       \* the record instance held (its vars), NoResult before one exists
    rOp,        \* the last operation on a record and its arguments
    rOut,       \* what that operation returned or raised
    \* --- command dispatch (SpecDispatch, SpecTyped) ---
    session,    \* the transport/session object: its two tokens
    calls,      \* the dispatcher calls made so far
    sent,       \* the transport operations issued so far
    cOp,        \* the last dispatcher call and its arguments
    cOut        \* what that call did: the transport operations it issued,
                \* what the transport answered, and what it returned

dateVars == <<dDesc, dIn, dStep, dTo, dAgain, dFrom, dRaw>>

recVars == <<cls, inst, rOp, rOut>>

cmdVars == <<session, calls, sent, cOp, cOut>>

vars == <<dateVars, recVars, cmdVars>>

----------------------------------------------------------------------------
(* Python values *)

None == [t |-> "None"]

Str(s) == [t |-> "str", s |-> s]

Datetime(Y, m, d, H, M, S, us) ==
    [t |-> "datetime", year |-> Y, month |-> m, day |-> d,
     hour |-> H, minute |-> M, second |-> S, microsecond |-> us]

Raise(e, arg) == [t |-> "raise", exc |-> e, arg |-> arg]

NoResult == [t |-> "unset"]

\* the variables of a part of the program a specification does not run
IdleDate ==
    /\ dDesc = NoResult
    /\ dIn = NoResult
    /\ dStep = "idle"
    /\ dTo = NoResult
    /\ dAgain = NoResult
    /\ dFrom = NoResult
    /\ dRaw = NoResult

IdleRecord ==
    /\ cls = NoResult
    /\ inst = NoResult
    /\ rOp = [op |-> "none"]
    /\ rOut = NoResult

IdleCmd ==
    /\ session = NoResult
    /\ calls = 0
    /\ sent = 0
    /\ cOp = [op |-> "none"]
    /\ cOut = NoResult

IsRaise(v) == v.t = "raise"

\* isinstance(value, datetime)
IsDatetime(v) == v.t = "datetime"

\* Python truth value of the values the model uses
Truthy(v) ==
    CASE v.t = "None" -> FALSE
      [] v.t = "str" -> Len(v.s) > 0
      [] v.t = "name" -> v.s # ""
      [] v.t = "dict" -> DOMAIN v.v # {}
      [] v.t = "list" -> Len(v.v) > 0
      [] OTHER -> TRUE

----------------------------------------------------------------------------
(* Characters *)

Digits == <<"0", "1", "2", "3", "4", "5", "6", "7", "8", "9">>

IsDigit(c) == \E i \in 1..Len(Digits) : Digits[i] = c

DigitVal(c) == (CHOOSE i \in 1..Len(Digits) : Digits[i] = c) - 1

WhiteSpace == {" ", "\t"}

Lower == <<"a", "d", "e", "g", "l", "o", "p", "s", "t", "u", "z">>

UpperOf == <<"A", "D", "E", "G", "L", "O", "P", "S", "T", "U", "Z">>

\* str.upper() on one character
UpperChar(c) ==
    IF \E i \in 1..Len(Lower) : Lower[i] = c
    THEN UpperOf[CHOOSE i \in 1..Len(Lower) : Lower[i] = c]
    ELSE c

\* str.upper()
Upper(s) == [i \in 1..Len(s) |-> UpperChar(s[i])]

RECURSIVE IntOf(_)
\* int(token) for a token of digits, possibly led by a blank
IntOf(tok) ==
    IF tok = <<>> THEN 0
    ELSE IF ~IsDigit(tok[Len(tok)]) THEN IntOf(SubSeq(tok, 1, Len(tok) - 1))
    ELSE 10 * IntOf(SubSeq(tok, 1, Len(tok) - 1)) + DigitVal(tok[Len(tok)])

RECURSIVE PadN(_, _)
\* the decimal digits of n, zero padded to w characters
PadN(n, w) ==
    IF w = 0 THEN <<>>
    ELSE Append(PadN(n \div 10, w - 1), Digits[(n % 10) + 1])

----------------------------------------------------------------------------
(* Date formats: core.py lines 10-14 *)

GITHUB_TIMEZONE == <<"-", "0", "7", "0", "0">>

GITHUB_DATE_FORMAT ==
    <<"%", "Y", "/", "%", "m", "/", "%", "d", " ",
      "%", "H", ":", "%", "M", ":", "%", "S">>

COMMIT_DATE_FORMAT ==
    <<"%", "Y", "-", "%", "m", "-", "%", "d", "T",
      "%", "H", ":", "%", "M", ":", "%", "S">>

COMMIT_TIMEZONE == <<"-", "0", "7", ":", "0", "0">>

\* the literal format of userdate_to_datetime's fallback
USER_ISO_FORMAT == COMMIT_DATE_FORMAT \o <<"Z">>

----------------------------------------------------------------------------
(* time.strptime and datetime(...) as used by strptime() *)

AllDigits(tok) == \A i \in 1..Len(tok) : IsDigit(tok[i])

\* whether a token of value n, of one digit (one) or of two (two), matches
\* the regular expression time.strptime uses for the directive
FieldFits(d, tok, n, one, two) ==
    CASE d = "Y" -> Len(tok) = 4 /\ AllDigits(tok)
      [] d = "m" -> (two /\ n \in 1..12) \/ (one /\ n \in 1..9)
      [] d = "d" -> \/ two /\ n \in 1..31
                    \/ one /\ n \in 1..9
                    \/ Len(tok) = 2 /\ tok[1] = " "
                       /\ IsDigit(tok[2]) /\ n \in 1..9
      [] d = "H" -> (two /\ n \in 0..23) \/ one
      [] d = "M" -> (two /\ n \in 0..59) \/ one
      [] d = "S" -> (two /\ n \in 0..61) \/ one
      [] OTHER -> FALSE

FieldOK(d, tok) ==
    FieldFits(d, tok, IntOf(tok),
              Len(tok) = 1 /\ AllDigits(tok), Len(tok) = 2 /\ AllDigits(tok))

FieldWidths(d) == IF d = "Y" THEN {4} ELSE {1, 2}

\* the fields a struct_time starts from
DefaultFields ==
    [Y |-> 1900, m |-> 1, d |-> 1, H |-> 0, M |-> 0, S |-> 0]

RECURSIVE Matches(_, _, _, _, _)
\* every way the whole of s, from position i, matches the format f from
\* position k; acc holds the fields read so far.  A literal matches
\* ignoring case, a blank of the format matches a run of white space.
Matches(s, f, i, k, acc) ==
    IF k > Len(f)
    THEN IF i = Len(s) + 1 THEN {acc} ELSE {}
    ELSE IF f[k] = "%"
    THEN LET d == f[k + 1]
             ws == {w \in FieldWidths(d) :
                       /\ i + w - 1 <= Len(s)
                       /\ FieldOK(d, SubSeq(s, i, i + w - 1))}
         IN UNION {Matches(s, f, i + w, k + 2,
                           [acc EXCEPT ![d] = IntOf(SubSeq(s, i, i + w - 1))])
                   : w \in ws}
    ELSE IF f[k] \in WhiteSpace
    THEN LET js == {j \in (i + 1)..(Len(s) + 1) :
                       \A p \in i..(j - 1) : s[p] \in WhiteSpace}
         IN UNION {Matches(s, f, j, k + 1, acc) : j \in js}
    ELSE IF i <= Len(s) /\ UpperChar(s[i]) = UpperChar(f[k])
    THEN Matches(s, f, i + 1, k + 1, acc)
    ELSE {}

IsLeap(y) == (y % 4 = 0 /\ y % 100 # 0) \/ y % 400 = 0

DaysInMonth(y, m) ==
    IF m = 2 THEN (IF IsLeap(y) THEN 29 ELSE 28)
    ELSE IF m \in {4, 6, 9, 11} THEN 30 ELSE 31

\* datetime(year, month, day, hour, minute, second) of the fields read
datetime_new(r) ==
    IF /\ r.Y \in 1..9999
       /\ r.d <= DaysInMonth(r.Y, r.m)
       /\ r.S <= 59
    THEN Datetime(r.Y, r.m, r.d, r.H, r.M, r.S, 0)
    ELSE Raise("ValueError", <<>>)

\* the datetime of the matches of a string against a format: ValueError
\* when there is none
FromMatches(ms) ==
    IF ms = {} THEN Raise("ValueError", <<>>)
    ELSE datetime_new(CHOOSE x \in ms : TRUE)

\* strptime(string, format): datetime(*(time.strptime(string, format)[:6]))
strptime(string, format) ==
    FromMatches(Matches(string, format, 1, 1, DefaultFields))

\* datetime.strftime(format) for the directives the formats use
RECURSIVE strftime(_, _)
strftime(dt, f) ==
    IF f = <<>> THEN <<>>
    ELSE IF f[1] = "%"
    THEN LET d == f[2]
             piece == CASE d = "Y" -> PadN(dt.year, 4)
                        [] d = "m" -> PadN(dt.month, 2)
                        [] d = "d" -> PadN(dt.day, 2)
                        [] d = "H" -> PadN(dt.hour, 2)
                        [] d = "M" -> PadN(dt.minute, 2)
                        [] d = "S" -> PadN(dt.second, 2)
         IN piece \o strftime(dt, SubSeq(f, 3, Len(f)))
    ELSE <<f[1]>> \o strftime(dt, SubSeq(f, 2, Len(f)))

\* datetime.isoformat()
isoformat(dt) ==
    strftime(dt, COMMIT_DATE_FORMAT)
        \o (IF dt.microsecond = 0 THEN <<>>
            ELSE <<".">> \o PadN(dt.microsecond, 6))

----------------------------------------------------------------------------
(* str.split() and str.join() *)

RECURSIVE SplitFrom(_, _, _)
\* the maximal runs of non-blank characters of s from position i on;
\* cur is the run being read
SplitFrom(s, i, cur) ==
    IF i > Len(s)
    THEN IF cur = <<>> THEN <<>> ELSE <<cur>>
    ELSE IF s[i] \in WhiteSpace
    THEN (IF cur = <<>> THEN <<>> ELSE <<cur>>) \o SplitFrom(s, i + 1, <<>>)
    ELSE SplitFrom(s, i + 1, Append(cur, s[i]))

\* string.strip().split()
Split(s) == SplitFrom(s, 1, <<>>)

RECURSIVE Join(_, _)
\* sep.join(parts)
Join(sep, parts) ==
    IF parts = <<>> THEN <<>>
    ELSE IF Len(parts) = 1 THEN parts[1]
    ELSE parts[1] \o sep \o Join(sep, Tail(parts))

\* seq[:n] for n >= 0
Take(seq, n) == SubSeq(seq, 1, IF n < Len(seq) THEN n ELSE Len(seq))

\* seq[:-n] for n > 0
DropLast(seq, n) == SubSeq(seq, 1, Len(seq) - n)

----------------------------------------------------------------------------
(* The converters: each takes and returns Python values *)

ghdate_to_datetime(github_date) ==
    LET date_without_tz == Join(<<" ">>, Take(Split(github_date.s), 2))
    IN strptime(date_without_tz, GITHUB_DATE_FORMAT)

datetime_to_ghdate(datetime_) ==
    LET date_without_tz == strftime(datetime_, GITHUB_DATE_FORMAT)
    IN Str(Join(<<" ">>, <<date_without_tz, GITHUB_TIMEZONE>>))

commitdate_to_datetime(commit_date) ==
    LET date_without_tz == DropLast(commit_date.s, 6)
    IN strptime(date_without_tz, COMMIT_DATE_FORMAT)

datetime_to_commitdate(datetime_) ==
    LET date_without_tz == strftime(datetime_, COMMIT_DATE_FORMAT)
    IN Str(Join(<<>>, <<date_without_tz, COMMIT_TIMEZONE>>))

\* try: return first / except ValueError: return strptime(user_date, ...)
ExceptValueError(first, user_date) ==
    IF IsRaise(first) /\ first.exc = "ValueError"
    THEN strptime(user_date.s, USER_ISO_FORMAT)
    ELSE first

userdate_to_datetime(user_date) ==
    ExceptValueError(ghdate_to_datetime(user_date), user_date)

isodate_to_datetime(iso_date) ==
    LET date_without_tz == DropLast(iso_date.s, 1)
    IN strptime(date_without_tz, COMMIT_DATE_FORMAT)

\* datetime_to_isodate, were the Z not appended
datetime_to_isodate_bare(datetime_) == Str(isoformat(datetime_))

datetime_to_isodate(datetime_) == Str(isoformat(datetime_) \o <<"Z">>)

----------------------------------------------------------------------------
(* Attribute descriptors: core.py lines 200-244 *)

\* Attribute(help)
Attribute == [t |-> "Attribute", format |-> "-"]

\* DateAttribute(help, format=...)
DateAttribute(format) == [t |-> "DateAttribute", format |-> format]

Formats == {"github", "commit", "user", "iso"}

\* isinstance(x, Attribute): DateAttribute is a subclass
IsAttribute(x) == x.t \in {"Attribute", "DateAttribute"}

\* DateAttribute.converter_for_format[format]["to"]: the function's name
ConverterTo(format) ==
    CASE format = "github" -> "ghdate_to_datetime"
      [] format = "commit" -> "commitdate_to_datetime"
      [] format = "user" -> "userdate_to_datetime"
      [] format = "iso" -> "isodate_to_datetime"

\* DateAttribute.converter_for_format[format]["from"]: the function's name
ConverterFrom(format) ==
    CASE format = "github" -> "datetime_to_ghdate"
      [] format = "commit" -> "datetime_to_commitdate"
      [] format = "user" -> "datetime_to_ghdate"
      [] format = "iso" -> "datetime_to_isodate"

\* calling a converter by name
Apply(fn, value) ==
    CASE fn = "ghdate_to_datetime" -> ghdate_to_datetime(value)
      [] fn = "commitdate_to_datetime" -> commitdate_to_datetime(value)
      [] fn = "userdate_to_datetime" -> userdate_to_datetime(value)
      [] fn = "isodate_to_datetime" -> isodate_to_datetime(value)
      [] fn = "datetime_to_ghdate" -> datetime_to_ghdate(value)
      [] fn = "datetime_to_commitdate" -> datetime_to_commitdate(value)
      [] fn = "datetime_to_isodate" -> datetime_to_isodate(value)

\* A conversion's outcome: the value returned (or the exception raised) and
\* the converter it called, "none" when it called none.
Outcome(result, called) == [result |-> result, called |-> called]

\* Attribute.to_python, and Attribute.from_python = to_python
Attribute_to_python(self, value) == Outcome(value, "none")

\* DateAttribute.to_python, were a native timestamp handed to the parse
\* function too (which finds no strip or slice on it)
DateAttribute_to_python_unguarded(self, value) ==
    IF Truthy(value)
    THEN Outcome(IF IsDatetime(value) THEN Raise("TypeError", <<>>)
                 ELSE Apply(ConverterTo(self.format), value),
                 ConverterTo(self.format))
    ELSE Outcome(value, "none")

DateAttribute_to_python(self, value) ==
    IF Truthy(value) /\ ~IsDatetime(value)
    THEN Outcome(Apply(ConverterTo(self.format), value), ConverterTo(self.format))
    ELSE Outcome(value, "none")

DateAttribute_from_python(self, value) ==
    IF Truthy(value) /\ IsDatetime(value)
    THEN Outcome(Apply(ConverterFrom(self.format), value),
                 ConverterFrom(self.format))
    ELSE Outcome(value, "none")

\* attr.to_python(value), by the descriptor's class
to_python(attr, value) ==
    IF attr.t = "DateAttribute" THEN DateAttribute_to_python(attr, value)
    ELSE Attribute_to_python(attr, value)

\* attr.from_python(value), by the descriptor's class
from_python(attr, value) ==
    IF attr.t = "DateAttribute" THEN DateAttribute_from_python(attr, value)
    ELSE Attribute_to_python(attr, value)

----------------------------------------------------------------------------
(* Inputs of the date conversions *)

Years == {2009, 2012}
Months == {2, 12}
Days == {1, 29}
Hours == {0, 23}
Minutes == {5}
Seconds == {0, 59}

\* calendar fields, some of which name no day (29 February 2009)
Fields ==
    [Y : Years, m : Months, d : Days, H : Hours, M : Minutes, S : Seconds]

IsCalendarDay(x) == x.d <= DaysInMonth(x.Y, x.m)

GithubZones == {GITHUB_TIMEZONE, <<"+", "0", "1", "0", "0">>}

CommitZones == {COMMIT_TIMEZONE, <<"+", "0", "1", ":", "0", "0">>}

\* "YYYY/MM/DD HH:MM:SS"
SlashDateTime(x) ==
    PadN(x.Y, 4) \o <<"/">> \o PadN(x.m, 2) \o <<"/">> \o PadN(x.d, 2)
        \o <<" ">> \o PadN(x.H, 2) \o <<":">> \o PadN(x.M, 2)
        \o <<":">> \o PadN(x.S, 2)

\* "YYYY-MM-DDTHH:MM:SS"
DashDateTime(x) ==
    PadN(x.Y, 4) \o <<"-">> \o PadN(x.m, 2) \o <<"-">> \o PadN(x.d, 2)
        \o <<"T">> \o PadN(x.H, 2) \o <<":">> \o PadN(x.M, 2)
        \o <<":">> \o PadN(x.S, 2)

\* the wire texts of section "Wire date formats"
GithubText(x, tz) == SlashDateTime(x) \o <<" ">> \o tz
CommitText(x, tz) == DashDateTime(x) \o tz
IsoText(x) == DashDateTime(x) \o <<"Z">>

GithubTexts(fs) == {GithubText(x, tz) : x \in fs, tz \in GithubZones}
CommitTexts(fs) == {CommitText(x, tz) : x \in fs, tz \in CommitZones}
IsoTexts(fs) == {IsoText(x) : x \in fs}

CalendarDays == {x \in Fields : IsCalendarDay(x)}

\* texts that are no wire text of any format, or only loosely one
OddTexts ==
    { <<>>,
      <<"n", "o", "t", "-", "a", "-", "d", "a", "t", "e">>,
      <<" ", "2", "0", "1", "2", "/", "0", "2", "/", "0", "1", " ", " ",
        "0", "0", ":", "0", "5", ":", "0", "0", " ", "-", "0", "7", "0", "0">>,
      <<"2", "0", "1", "2", "/", "2", "/", "1", " ", "0", ":", "5", ":", "0">>,
      <<"2", "0", "1", "2", "-", "0", "2", "-", "0", "1", "t",
        "0", "0", ":", "0", "5", ":", "0", "0", "z">>,
      <<"2", "0", "1", "2", "-", "0", "2", "-", "0", "1", "T",
        "0", "0", ":", "0", "5", ":", "6", "0", "Z">> }

Texts == GithubTexts(Fields) \cup CommitTexts(Fields) \cup IsoTexts(Fields)
            \cup OddTexts

Natives ==
    { Datetime(2012, 2, 29, 23, 5, 59, 0),
      Datetime(2009, 12, 1, 0, 5, 0, 0),
      Datetime(2012, 12, 1, 0, 0, 0, 250000) }

DateInputs == {None} \cup {Str(s) : s \in Texts} \cup Natives

Descriptors == {Attribute} \cup {DateAttribute(f) : f \in Formats}

----------------------------------------------------------------------------
(* Record types: core.py lines 247-284 *)

Dict(f) == [t |-> "dict", v |-> f]

List(q) == [t |-> "list", v |-> q]

Instance(f) == [t |-> "instance", vars |-> f]

\* dict.get(key): None when the key is absent
Get(d, k) == IF k \in DOMAIN d THEN d[k] ELSE None

\* f with f[k] = v, k new or not
Put(f, k, v) == [n \in DOMAIN f \cup {k} |-> IF n = k THEN v ELSE f[n]]

\* BaseDataType.__new__(cls, name, bases, attrs): the schema is the
\* members of the class body that are Attribute instances, and each of them
\* becomes None on the class.
BaseDataType_new(name, attrs) ==
    LET meta == [n \in {m \in DOMAIN attrs : IsAttribute(attrs[m])}
                    |-> attrs[n]]
    IN [t |-> "type",
        name |-> name,
        meta |-> meta,
        attrs |-> [n \in DOMAIN attrs |->
                      IF n \in DOMAIN meta THEN None ELSE attrs[n]]]

\* Slots, were no conversion applied
Slots_raw(type, kwargs) == [n \in DOMAIN kwargs |-> kwargs[n]]

\* the value __init__ sets each slot to: setattr(self, attr_name, ...)
Slots(type, kwargs) ==
    [n \in DOMAIN kwargs |->
        IF Truthy(Get(type.meta, n))
        THEN to_python(Get(type.meta, n), kwargs[n]).result
        ELSE kwargs[n]]

\* what __init__ leaves: the type, the exception a conversion raised (None
\* when none did) and vars(self)
init_result(type, slot) ==
    LET failed == {n \in DOMAIN slot : IsRaise(slot[n])}
    IN [type |-> type,
        raised |-> IF failed = {} THEN None
                   ELSE slot[CHOOSE n \in failed : TRUE],
        self |-> [n \in DOMAIN slot \ failed |-> slot[n]]]

\* constructor, were an undeclared key entered into the schema
constructor_declaring(type, kwargs) ==
    init_result([type EXCEPT !.meta =
                    [n \in DOMAIN type.meta \cup DOMAIN kwargs |->
                        IF n \in DOMAIN type.meta THEN type.meta[n]
                        ELSE Attribute]],
                Slots(type, kwargs))

\* The synthesized __init__(self, **kwargs), run on a fresh instance of
\* the type.
constructor(type, kwargs) == init_result(type, Slots(type, kwargs))

\* iterate, were the slots holding None not left out
iterate_all(self) == {<<n, self[n]>> : n \in DOMAIN self}

\* The synthesized __iter__(self): the items of vars(self) whose value is
\* not None, in no particular order.
iterate(self) ==
    {<<n, self[n]>> : n \in {m \in DOMAIN self : self[m] # None}}

----------------------------------------------------------------------------
(* Record types and the values records are built from *)

SampleDay == [Y |-> 2012, m |-> 2, d |-> 29, H |-> 23, M |-> 5, S |-> 59]

GithubSample == Str(GithubText(SampleDay, <<"+", "0", "1", "0", "0">>))

NotADate == Str(<<"n", "o", "t", "-", "a", "-", "d", "a", "t", "e">>)

NativeSample == Datetime(2009, 12, 1, 0, 5, 0, 0)

TitleSample == Str(<<"a", "b">>)

\* class bodies: an issue-like type with a github date, a plain field and
\* a member that is no Attribute, and the bare BaseData
ClassBodies ==
    { [name |-> "Issue",
       attrs |-> [created_at |-> DateAttribute("github"),
                  title |-> Attribute,
                  kind |-> Str(<<"i">>)]],
      [name |-> "BaseData", attrs |-> [n \in {} |-> None]] }

FieldNames == {"created_at", "title", "extra"}

ValuesFor(n) ==
    CASE n = "created_at" -> {None, GithubSample, NotADate, NativeSample}
      [] n = "title" -> {TitleSample}
      [] n = "extra" -> {None, GithubSample}

AllValues == UNION {ValuesFor(n) : n \in FieldNames}

\* the mappings a record is constructed from
Kwargs ==
    UNION {{f \in [D -> AllValues] : \A n \in D : f[n] \in ValuesFor(n)}
           : D \in SUBSET FieldNames}

\* the values a slot is assigned after construction
AssignedValues == {None, GithubSample}

----------------------------------------------------------------------------
(* Constructing, assigning to and enumerating records.  inst is the record *)
(* the program holds: each construction replaces it by a new instance.     *)

InitRecord ==
    /\ IdleDate
    /\ IdleCmd
    /\ \E body \in ClassBodies : cls = BaseDataType_new(body.name, body.attrs)
    /\ inst = NoResult
    /\ rOp = [op |-> "none"]
    /\ rOut = NoResult

\* the program keeps the record constructed, or the one it had when the
\* constructor raised
Keep(kwargs, r) ==
    /\ cls' = r.type
    /\ inst' = IF r.raised = None THEN Instance(r.self) ELSE inst
    /\ rOp' = [op |-> "new", kwargs |-> kwargs]
    /\ rOut' = r.raised
    /\ UNCHANGED <<dateVars, cmdVars>>

\* inst = Type(**kwargs)
NewRecord(kwargs) == Keep(kwargs, constructor(cls, kwargs))

\* inst.name = value
SetAttr(name, value) ==
    /\ inst # NoResult
    /\ inst' = Instance(Put(inst.vars, name, value))
    /\ rOp' = [op |-> "setattr", name |-> name, value |-> value]
    /\ rOut' = None
    /\ UNCHANGED <<cls, dateVars, cmdVars>>

\* items = set(iter(inst))
Iterate ==
    /\ inst # NoResult
    /\ rOp' = [op |-> "iter"]
    /\ rOut' = [t |-> "items", v |-> iterate(inst.vars)]
    /\ UNCHANGED <<cls, inst, dateVars, cmdVars>>

NextRecord ==
    \/ \E kwargs \in Kwargs : NewRecord(kwargs)
    \/ \E n \in FieldNames, v \in AssignedValues : SetAttr(n, v)
    \/ Iterate

SpecRecord == InitRecord /\ [][NextRecord]_vars

----------------------------------------------------------------------------
(* The conversions of one descriptor, applied to one value: to_python,     *)
(* from_python on the same value, to_python on the converted value, and    *)
(* from_python on the converted value.                                     *)

InitDate ==
    /\ IdleRecord
    /\ IdleCmd
    /\ dDesc \in Descriptors
    /\ dIn \in DateInputs
    /\ dStep = "input"
    /\ dTo = NoResult
    /\ dAgain = NoResult
    /\ dFrom = NoResult
    /\ dRaw = NoResult

ToPython ==
    /\ dStep = "input"
    /\ dTo' = to_python(dDesc, dIn)
    /\ dStep' = "to"
    /\ UNCHANGED <<dDesc, dIn, dAgain, dFrom, dRaw, recVars, cmdVars>>

FromPythonRaw ==
    /\ dStep = "to"
    /\ dRaw' = from_python(dDesc, dIn)
    /\ dStep' = "raw"
    /\ UNCHANGED <<dDesc, dIn, dTo, dAgain, dFrom, recVars, cmdVars>>

ToPythonAgain ==
    /\ dStep = "raw"
    /\ ~IsRaise(dTo.result)
    /\ dAgain' = to_python(dDesc, dTo.result)
    /\ dStep' = "again"
    /\ UNCHANGED <<dDesc, dIn, dTo, dFrom, dRaw, recVars, cmdVars>>

FromPython ==
    /\ dStep = "again"
    /\ dFrom' = from_python(dDesc, dTo.result)
    /\ dStep' = "from"
    /\ UNCHANGED <<dDesc, dIn, dTo, dAgain, dRaw, recVars, cmdVars>>

NextDate == ToPython \/ FromPythonRaw \/ ToPythonAgain \/ FromPython

SpecDate == InitDate /\ [][NextDate]_vars

----------------------------------------------------------------------------
(* The command dispatcher and the authentication guard:                    *)
(* core.py lines 99-181                                                    *)

PyInt(n) == [t |-> "int", v |-> n]

\* a unicode string, as the keys of a decoded response are
Unicode(name) == [t |-> "unicode", s |-> name]

\* a str that names a key: its text is not taken apart
Name(name) == [t |-> "name", s |-> name]

\* str(k) for a unicode key: the keyword-argument name
StrOf(k) == k.s

\* obj[key]: a dict finds a key by its text, unicode or str
GetItem(obj, key) ==
    IF obj.t = "dict"
    THEN LET hits == {k \in DOMAIN obj.v : k.s = key.s}
         IN IF hits = {} THEN Raise("KeyError", key)
            ELSE obj.v[CHOOSE k \in hits : TRUE]
    ELSE Raise("TypeError", key)

\* dict((str(k), v) for (k, v) in value.iteritems())
Rekey(value) ==
    [n \in {StrOf(k) : k \in DOMAIN value.v} |->
        value.v[CHOOSE k \in DOMAIN value.v : StrOf(k) = n]]

\* one operation of the transport: self.request.<verb>(domain, command,
\* *args, **fields)
TransportCall(verb, domain, command, args, fields) ==
    [verb |-> verb, domain |-> domain, command |-> command,
     args |-> args, fields |-> fields]

NoFields == [n \in {} |-> None]

CharsPOST == <<"P", "O", "S", "T">>
CharsGET == <<"G", "E", "T">>
CharsPUT == <<"P", "U", "T">>
CharsDELETE == <<"D", "E", "L", "E", "T", "E">>

\* What a dispatcher call did: the transport operations it issued, whether
\* it indexed the response by the filter, how many records it constructed,
\* whether the guarded operation was invoked, and the value it returned or
\* the exception it raised.
Effect(wire, filtered, built, result) ==
    [wire |-> wire, filtered |-> filtered, built |-> built,
     invoked |-> TRUE, result |-> result]

\* Select, were GET with post data not promoted to a post
Select_unpromoted(self, command, args, upper, post_data) ==
    IF upper = CharsPOST /\ DOMAIN post_data # {}
    THEN TransportCall("post", self.domain, command, args, post_data)
    ELSE IF upper = CharsPUT
    THEN TransportCall("put", self.domain, command, args, post_data)
    ELSE IF upper = CharsDELETE
    THEN TransportCall("delete", self.domain, command, args, post_data)
    ELSE TransportCall("get", self.domain, command, args, NoFields)

\* the transport operation make_request selects
Select(self, command, args, upper, post_data) ==
    IF upper \in {CharsPOST, CharsGET} /\ DOMAIN post_data # {}
    THEN TransportCall("post", self.domain, command, args, post_data)
    ELSE IF upper = CharsPUT
    THEN TransportCall("put", self.domain, command, args, post_data)
    ELSE IF upper = CharsDELETE
    THEN TransportCall("delete", self.domain, command, args, post_data)
    ELSE TransportCall("get", self.domain, command, args, NoFields)

\* kwargs.get("post_data") or {}
PostDataOf(kwargs) ==
    IF Truthy(Get(kwargs, "post_data")) THEN kwargs["post_data"].v
    ELSE NoFields

\* kwargs.get("method", "GET")
MethodOf(kwargs) ==
    IF "method" \in DOMAIN kwargs THEN kwargs["method"] ELSE Str(CharsGET)

\* Shape, were the filter never applied
Shape_unfiltered(call, filter, reply) ==
    Effect(<<call>>, FALSE, 0, reply)

\* Shape, were a failed transport operation issued once more
Shape_retrying(call, filter, reply) ==
    IF IsRaise(reply) THEN Effect(<<call, call>>, FALSE, 0, reply)
    ELSE IF Truthy(filter)
    THEN Effect(<<call>>, TRUE, 0, GetItem(reply, filter))
    ELSE Effect(<<call>>, FALSE, 0, reply)

\* the response, shaped by the filter
Shape(call, filter, reply) ==
    IF IsRaise(reply) THEN Effect(<<call>>, FALSE, 0, reply)
    ELSE IF Truthy(filter)
    THEN Effect(<<call>>, TRUE, 0, GetItem(reply, filter))
    ELSE Effect(<<call>>, FALSE, 0, reply)

\* GithubCommand.make_request(self, command, *args, **kwargs), the
\* transport answering reply (a value, or an exception it raises)
make_request(self, command, args, kwargs, reply) ==
    Shape(Select(self, command, args,
                 Upper(MethodOf(kwargs).s), PostDataOf(kwargs)),
          Get(kwargs, "filter"), reply)

\* the record a constructor call leaves, or the exception it raised
InstanceOf(r) == IF r.raised = None THEN Instance(r.self) ELSE r.raised

\* datatype(**dict((str(k), v) for (k, v) in value.iteritems())): the
\* record, or the exception raised
Build(datatype, value) ==
    IF value.t # "dict" THEN Raise("AttributeError", "iteritems")
    ELSE InstanceOf(constructor(datatype, Rekey(value)))

\* kwargs without the key (kwargs.pop)
Without(kwargs, key) == [n \in DOMAIN kwargs \ {key} |-> kwargs[n]]

\* get_value after make_request returned or raised
OneOf(datatype, got) ==
    IF IsRaise(got.result) THEN got
    ELSE IF Truthy(datatype)
    THEN [got EXCEPT !.built = 1, !.result = Build(datatype, got.result)]
    ELSE got

\* GithubCommand.get_value(self, *args, **kwargs)
get_value(self, command, args, kwargs, reply) ==
    OneOf(Get(kwargs, "datatype"),
          make_request(self, command, args, Without(kwargs, "datatype"),
                       reply))

\* Cons, were the record put behind the others
Cons_behind(head, rest) ==
    [built |-> rest.built + 1,
     result |-> IF IsRaise(rest.result) THEN rest.result
                ELSE List(rest.result.v \o <<head>>)]

\* a list with one more record in front
Cons(head, rest) ==
    [built |-> rest.built + 1,
     result |-> IF IsRaise(rest.result) THEN rest.result
                ELSE List(<<head>> \o rest.result.v)]

RECURSIVE BuildAll(_, _)
RECURSIVE BuildRest(_, _, _)
\* the comprehension after its first record was built, or raised
BuildRest(head, datatype, values) ==
    IF IsRaise(head) THEN [built |-> 1, result |-> head]
    ELSE Cons(head, BuildAll(datatype, values))

\* [datatype(**...) for value in values]: the records, or the first
\* exception raised, and the number of constructor calls made
BuildAll(datatype, values) ==
    IF values = <<>> THEN [built |-> 0, result |-> List(<<>>)]
    ELSE BuildRest(Build(datatype, values[1]), datatype, Tail(values))

\* the comprehension over what make_request returned
ListOf(got, all) == [got EXCEPT !.built = all.built, !.result = all.result]

\* get_values after make_request returned or raised.  Iterating a dict
\* yields its keys, and a key has no iteritems.
ManyOf(datatype, got) ==
    IF IsRaise(got.result) THEN got
    ELSE IF ~Truthy(datatype) THEN got
    ELSE IF got.result.t = "list"
    THEN ListOf(got, BuildAll(datatype, got.result.v))
    ELSE IF Truthy(got.result)
    THEN [got EXCEPT !.built = 1,
                     !.result = Raise("AttributeError", "iteritems")]
    ELSE [got EXCEPT !.result = List(<<>>)]

\* GithubCommand.get_values(self, *args, **kwargs)
get_values(self, command, args, kwargs, reply) ==
    ManyOf(Get(kwargs, "datatype"),
           make_request(self, command, args, Without(kwargs, "datatype"),
                        reply))

\* requires_auth, were only the access token looked at
requires_auth_access_only(self, name, ran) ==
    IF ~Truthy(self.request.access_token)
    THEN [wire |-> <<>>, filtered |-> FALSE, built |-> 0, invoked |-> FALSE,
          result |-> Raise("AuthError", name)]
    ELSE ran

\* requires_auth(f): the wrapper, where ran is what invoking f does
requires_auth(self, name, ran) ==
    IF ~Truthy(self.request.access_token) /\ ~Truthy(self.request.api_token)
    THEN [wire |-> <<>>, filtered |-> FALSE, built |-> 0, invoked |-> FALSE,
          result |-> Raise("AuthError", name)]
    ELSE ran

----------------------------------------------------------------------------
(* The calls made of the dispatcher and the answers of the transport *)

MaxCalls == 2

Token == Str(<<"t", "o", "k">>)

\* a token of the session is unset, empty or set
Sessions ==
    [access_token : {None, Str(<<>>), Token},
     api_token : {None, Str(<<>>), Token}]

Domain == "issues"

Command == "show"

Args == <<"defunkt", "1">>

\* the record type typed retrieval constructs
Issue ==
    BaseDataType_new("Issue",
                     [created_at |-> DateAttribute("github"),
                      title |-> Attribute])

\* decoded responses: mappings with unicode keys, and lists of them
Full ==
    Dict([k \in {Unicode("created_at"), Unicode("title"), Unicode("extra")} |->
            CASE k = Unicode("created_at") -> GithubSample
              [] k = Unicode("title") -> TitleSample
              [] k = Unicode("extra") -> GithubSample])

Sparse ==
    Dict([k \in {Unicode("created_at"), Unicode("number")} |->
            IF k = Unicode("created_at") THEN None ELSE PyInt(7)])

Broken == Dict([k \in {Unicode("created_at")} |-> NotADate])

Wrapped ==
    Dict([k \in {Unicode("items"), Unicode("user"), Unicode("bad")} |->
            CASE k = Unicode("items") -> List(<<Sparse, Full>>)
              [] k = Unicode("user") -> Full
              [] k = Unicode("bad") -> List(<<Full, Broken, Sparse>>)])

TransportError == Raise("TransportError", "503")

\* what the transport answers, by name
Reply(name) ==
    CASE name = "wrapped" -> Wrapped
      [] name = "full" -> Full
      [] name = "list" -> List(<<Full, Sparse>>)
      [] name = "error" -> TransportError

Chars(name) ==
    CASE name = "GET" -> CharsGET
      [] name = "post" -> <<"p", "o", "s", "t">>
      [] name = "Put" -> <<"P", "u", "t">>
      [] name = "delete" -> <<"d", "e", "l", "e", "t", "e">>
      [] name = "PATCH" -> <<"P", "A", "T", "C", "H">>

\* the keyword arguments of a call: each of the four may be absent
KwargsOf(methods, posts, filters, datatypes) ==
    UNION {{f \in [D -> methods \cup posts \cup filters \cup datatypes] :
               /\ "method" \in D => f["method"] \in methods
               /\ "post_data" \in D => f["post_data"] \in posts
               /\ "filter" \in D => f["filter"] \in filters
               /\ "datatype" \in D => f["datatype"] \in datatypes}
           : D \in {D \in SUBSET {"method", "post_data", "filter", "datatype"} :
                       /\ methods = {} => "method" \notin D
                       /\ posts = {} => "post_data" \notin D
                       /\ filters = {} => "filter" \notin D
                       /\ datatypes = {} => "datatype" \notin D}}

Methods == {Str(Chars(m)) : m \in {"GET", "post", "Put", "delete", "PATCH"}}

PostData == {Dict(NoFields), Dict([a |-> PyInt(1)])}

\* dispatch: every method with every post data and filter, the empty
\* filter among them
DispatchKwargs ==
    KwargsOf(Methods, PostData, {Name("user"), Name("missing"), Name("")},
             {})

DispatchReplies == {"wrapped", "error"}

\* typed retrieval: every filter with and without a datatype
TypedKwargs ==
    KwargsOf({}, {Dict([a |-> PyInt(1)])},
             {Name(f) : f \in {"items", "user", "bad", "missing"}},
             {Issue})

TypedReplies == {"wrapped", "full", "list", "error"}

----------------------------------------------------------------------------
(* Dispatcher calls *)

Self == [domain |-> Domain, request |-> session]

\* a call: the counters move by what it did
Record(op, kwargs, reply, did) ==
    /\ calls < MaxCalls
    /\ calls' = calls + 1
    /\ sent' = sent + Len(did.wire)
    /\ cOp' = [op |-> op, kwargs |-> kwargs, reply |-> reply]
    /\ cOut' = did
    /\ UNCHANGED <<session, dateVars, recVars>>

MakeRequest(kwargs, reply) ==
    Record("make_request", kwargs, reply,
           make_request(Self, Command, Args, kwargs, Reply(reply)))

\* a command method decorated with requires_auth whose body is
\* return self.make_request(command, *args, **kwargs)
GuardedRequest(kwargs, reply) ==
    Record("guarded", kwargs, reply,
           requires_auth(Self, "guarded",
                         make_request(Self, Command, Args, kwargs,
                                      Reply(reply))))

GetValue(kwargs, reply) ==
    Record("get_value", kwargs, reply,
           get_value(Self, Command, Args, kwargs, Reply(reply)))

GetValues(kwargs, reply) ==
    Record("get_values", kwargs, reply,
           get_values(Self, Command, Args, kwargs, Reply(reply)))

\* the application sets or clears the credentials of the session
SetTokens(tokens) ==
    /\ session' = tokens
    /\ session' # session
    /\ UNCHANGED <<calls, sent, cOp, cOut, dateVars, recVars>>

InitCmd ==
    /\ IdleDate
    /\ IdleRecord
    /\ session \in Sessions
    /\ calls = 0
    /\ sent = 0
    /\ cOp = [op |-> "none"]
    /\ cOut = NoResult

NextDispatch ==
    \/ \E kwargs \in DispatchKwargs, reply \in DispatchReplies :
          MakeRequest(kwargs, reply)
    \/ \E kwargs \in DispatchKwargs, reply \in DispatchReplies :
          GuardedRequest(kwargs, reply)
    \/ \E tokens \in Sessions : SetTokens(tokens)

SpecDispatch == InitCmd /\ [][NextDispatch]_vars

NextTyped ==
    \/ \E kwargs \in TypedKwargs, reply \in TypedReplies :
          MakeRequest(kwargs, reply)
    \/ \E kwargs \in TypedKwargs, reply \in TypedReplies :
          GetValue(kwargs, reply)
    \/ \E kwargs \in TypedKwargs, reply \in TypedReplies :
          GetValues(kwargs, reply)

InitTyped == InitCmd /\ session = [access_token |-> None, api_token |-> None]

SpecTyped == InitTyped /\ [][NextTyped]_vars

----------------------------------------------------------------------------
(* Properties of the date codec and the descriptors (SpecDate) *)

ValidGithub == GithubTexts(CalendarDays)
ValidCommit == CommitTexts(CalendarDays)
ValidIso == IsoTexts(CalendarDays)

\* the valid wire texts of a format
ValidWire(format) ==
    CASE format = "github" -> ValidGithub
      [] format = "commit" -> ValidCommit
      [] format = "iso" -> ValidIso
      [] format = "user" -> ValidGithub \cup ValidIso

\* the date-time prefix of a wire text: its first 19 characters
DateTimePrefix(text) == Take(text, 19)

\* a "YYYY-MM-DDTHH:MM:SS" prefix in the github layout
InGithubLayout(prefix) ==
    [i \in 1..Len(prefix) |->
        CASE prefix[i] = "-" -> "/"
          [] prefix[i] = "T" -> " "
          [] OTHER -> prefix[i]]

\* a date descriptor has parsed a valid wire text of its format and
\* formatted the result
RoundTripDone ==
    /\ dStep = "from"
    /\ dDesc.t = "DateAttribute"
    /\ dIn.t = "str"
    /\ dIn.s \in ValidWire(dDesc.format)

\* C6 as stated: for commit, user and iso, format(parse(text)) = text for
\* every valid wire text; for github it is the date-time prefix of text,
\* a space and the constant offset -0700.
C6_RoundTripAsStated ==
    RoundTripDone =>
        IF dDesc.format = "github"
        THEN dFrom.result
                = Str(DateTimePrefix(dIn.s) \o <<" ">> \o GITHUB_TIMEZONE)
        ELSE dFrom.result = dIn

\* C6, amended: for iso, format(parse(text)) = text.  For commit it is text
\* with its 6-character timezone suffix replaced by -07:00.  For github and
\* for user it is the date-time of text in the github layout, a space and
\* -0700.  So commit and user give back the text only when its offset is
\* the constant one, and user never gives back a text of its ISO grammar.
C6_RoundTripByFormat ==
    RoundTripDone =>
        /\ dDesc.format = "iso" => dFrom.result = dIn
        /\ dDesc.format = "commit" =>
              /\ dFrom.result = Str(DropLast(dIn.s, 6) \o COMMIT_TIMEZONE)
              /\ dFrom.result = dIn
                    <=> SubSeq(dIn.s, 20, Len(dIn.s)) = COMMIT_TIMEZONE
        /\ dDesc.format = "github" =>
              dFrom.result
                 = Str(DateTimePrefix(dIn.s) \o <<" ">> \o GITHUB_TIMEZONE)
        /\ dDesc.format = "user" =>
              /\ dFrom.result
                    = Str(InGithubLayout(DateTimePrefix(dIn.s))
                             \o <<" ">> \o GITHUB_TIMEZONE)
              /\ dFrom.result = dIn
                    <=> SubSeq(dIn.s, 20, Len(dIn.s))
                           = <<" ">> \o GITHUB_TIMEZONE

\* a user text of the ISO grammar was parsed and came back in the github
\* grammar
C6_Witness ==
    /\ RoundTripDone
    /\ dDesc.format = "user"
    /\ dIn.s \in ValidIso
    /\ dFrom.result.t = "str"
    /\ dFrom.result # dIn

\* C7: to_python of an absent value or a native timestamp returns it
\* unchanged and calls no parse function, so to_python is idempotent;
\* from_python calls the format function exactly when the value is a
\* (present) native timestamp and returns any other value unchanged; both
\* conversions of the generic Attribute are the identity.
C7_ConversionGuards ==
    /\ dStep \in {"to", "raw", "again", "from"} =>
          /\ (dIn = None \/ IsDatetime(dIn)) =>
                dTo = Outcome(dIn, "none")
          /\ dDesc.t = "Attribute" => dTo = Outcome(dIn, "none")
          /\ dTo.called # "none" =>
                dDesc.t = "DateAttribute" /\ dIn.t = "str"
    /\ dStep \in {"raw", "again", "from"} =>
          /\ dRaw.called # "none"
                <=> dDesc.t = "DateAttribute" /\ IsDatetime(dIn)
          /\ dRaw.called = "none" => dRaw.result = dIn
          /\ dRaw.called # "none" => dRaw.result.t = "str"
    /\ dStep \in {"again", "from"} =>
          dAgain = Outcome(dTo.result, "none")
    /\ dStep = "from" =>
          (dFrom.called # "none"
              <=> dDesc.t = "DateAttribute" /\ IsDatetime(dTo.result))

\* a date descriptor parsed a wire text, and converting the native result
\* again changed nothing
C7_Witness ==
    /\ dStep = "from"
    /\ dDesc.t = "DateAttribute"
    /\ dIn.t = "str"
    /\ IsDatetime(dTo.result)
    /\ dTo.called # "none"
    /\ dAgain.result = dTo.result
    /\ dFrom.called # "none"

----------------------------------------------------------------------------
(* Properties of records (SpecRecord) *)

\* the last operation constructed a record
Constructed == rOp.op = "new" /\ rOut = None

\* C4: after construction from a mapping, the slot of every entry named in
\* the schema holds the descriptor's to_python conversion of the given value
\* (a native timestamp for a date field given wire text), and the slot of
\* every other entry holds the given value itself.
C4_ConstructorConverts ==
    Constructed =>
        /\ DOMAIN inst.vars = DOMAIN rOp.kwargs
        /\ \A n \in DOMAIN rOp.kwargs :
              LET given == rOp.kwargs[n]
              IN IF n \in DOMAIN cls.meta
                 THEN /\ inst.vars[n] = to_python(cls.meta[n], given).result
                      /\ (cls.meta[n].t = "DateAttribute" /\ given.t = "str")
                            => IsDatetime(inst.vars[n])
                      /\ (cls.meta[n] = DateAttribute("github")
                             /\ given = GithubSample)
                            => inst.vars[n]
                                  = Datetime(2012, 2, 29, 23, 5, 59, 0)
                 ELSE inst.vars[n] = given

\* a record was constructed from wire text for its date field and for an
\* undeclared field
C4_Witness ==
    /\ Constructed
    /\ "created_at" \in DOMAIN cls.meta
    /\ DOMAIN rOp.kwargs = {"created_at", "extra"}
    /\ rOp.kwargs["created_at"] = GithubSample
    /\ rOp.kwargs["extra"] = GithubSample
    /\ IsDatetime(inst.vars["created_at"])
    /\ inst.vars["extra"] = GithubSample

\* C5 as stated: enumerating a record yields exactly the fields that are
\* declared in the schema, assigned, and not None, each with its value.
C5_EnumeratesDeclaredOnly ==
    rOp.op = "iter" =>
        rOut.v = {<<n, inst.vars[n]>> :
                     n \in {m \in DOMAIN inst.vars \cap DOMAIN cls.meta :
                               inst.vars[m] # None}}

\* C5, amended: enumerating a record yields exactly the assigned slots,
\* declared in the schema or not, whose current value is not None, each
\* paired with its current value; a declared field left unset is not in the
\* enumeration.
C5_EnumeratesAssigned ==
    rOp.op = "iter" =>
        /\ {e[1] : e \in rOut.v}
              = {n \in DOMAIN inst.vars : inst.vars[n] # None}
        /\ \A e \in rOut.v : e[2] = inst.vars[e[1]]
        /\ \A n \in DOMAIN cls.meta \ DOMAIN inst.vars :
              n \notin {e[1] : e \in rOut.v}

\* a record with an undeclared slot and an unset declared field was
\* enumerated
C5_Witness ==
    /\ rOp.op = "iter"
    /\ "title" \in DOMAIN cls.meta
    /\ "title" \notin DOMAIN inst.vars
    /\ "extra" \in DOMAIN inst.vars
    /\ <<"extra", GithubSample>> \in rOut.v
    /\ "created_at" \in DOMAIN inst.vars
    /\ inst.vars["created_at"] = None

\* C10: no construction, assignment or enumeration changes the schema of
\* the record type.
C10_SchemaFrozen == [][cls'.meta = cls.meta]_vars

\* a type with a schema has constructed a record from an undeclared key
\* and the key is no schema entry
C10_Witness ==
    /\ Constructed
    /\ DOMAIN cls.meta = {"created_at", "title"}
    /\ "extra" \in DOMAIN rOp.kwargs
    /\ "extra" \in DOMAIN inst.vars

----------------------------------------------------------------------------
(* Properties of the dispatcher and the guard (SpecDispatch) *)

\* the last call reached make_request
Dispatched == cOp.op \in {"make_request", "guarded"} /\ cOut.invoked

\* The transport operation the precedence rule names for the keyword
\* arguments of a call, method by method.
ExpectedCall(kwargs) ==
    LET m == IF "method" \in DOMAIN kwargs THEN kwargs["method"]
             ELSE Str(Chars("GET"))
        data == IF "post_data" \in DOMAIN kwargs THEN kwargs["post_data"].v
                ELSE NoFields
    IN CASE m \in {Str(Chars("GET")), Str(Chars("post"))}
               /\ DOMAIN data # {} ->
                 TransportCall("post", Domain, Command, Args, data)
         [] m = Str(Chars("Put")) ->
                 TransportCall("put", Domain, Command, Args, data)
         [] m = Str(Chars("delete")) ->
                 TransportCall("delete", Domain, Command, Args, data)
         [] OTHER -> TransportCall("get", Domain, Command, Args, NoFields)

\* C1: make_request selects the transport operation by the precedence
\* POST or GET (in any case) with non-empty post data -> post with the
\* post data as named arguments; else PUT -> put; else DELETE -> delete;
\* else get with the domain, the command and the positional arguments
\* only.  GET with non-empty post data issues the call POST issues.
C1_VerbPrecedence ==
    Dispatched =>
        /\ cOut.wire = <<ExpectedCall(cOp.kwargs)>>
        /\ ("method" \in DOMAIN cOp.kwargs
               /\ cOp.kwargs["method"] = Str(Chars("GET"))) =>
              cOut.wire
                 = <<ExpectedCall([cOp.kwargs EXCEPT
                                      !["method"] = Str(Chars("post"))])>>

\* GET with non-empty post data was issued as a post carrying the data
C1_Witness ==
    /\ cOp.op = "make_request"
    /\ "method" \in DOMAIN cOp.kwargs
    /\ cOp.kwargs["method"] = Str(Chars("GET"))
    /\ "post_data" \in DOMAIN cOp.kwargs
    /\ cOp.kwargs["post_data"] = Dict([a |-> PyInt(1)])
    /\ cOut.wire
          = <<TransportCall("post", Domain, Command, Args, [a |-> PyInt(1)])>>

\* a token is present when it is set and not empty
Present(token) == token # None /\ token # Str(<<>>)

\* C2: a call of an operation wrapped by requires_auth invokes the
\* operation, and returns what it returns, exactly when the access token
\* or the API token of the session is present; when neither is, the call
\* raises AuthError naming the operation, the operation is not invoked and
\* no transport operation is issued.
C2_AuthGuard ==
    [][(calls' = calls + 1 /\ cOp'.op = "guarded") =>
          IF Present(session.access_token) \/ Present(session.api_token)
          THEN /\ cOut'.invoked
               /\ cOut' = make_request(Self, Command, Args, cOp'.kwargs,
                                       Reply(cOp'.reply))
               /\ sent' = sent + 1
          ELSE /\ ~cOut'.invoked
               /\ cOut'.result = Raise("AuthError", "guarded")
               /\ cOut'.wire = <<>>
               /\ sent' = sent]_vars

\* a guarded operation was called on a session without tokens, and again
\* after the API token was set
C2_Witness ==
    /\ calls = 2
    /\ sent = 1
    /\ cOp.op = "guarded"
    /\ cOut.invoked
    /\ session.access_token = None
    /\ session.api_token = Token

\* make_request returned, or raised in indexing the response
Answered == Dispatched /\ ~IsRaise(Reply(cOp.reply))

\* rawResult[filter]: the value under the key, or the lookup error
Lookup(raw, filter) ==
    IF raw.t # "dict" THEN Raise("TypeError", filter)
    ELSE IF \E k \in DOMAIN raw.v : k.s = filter.s
    THEN raw.v[CHOOSE k \in DOMAIN raw.v : k.s = filter.s]
    ELSE Raise("KeyError", filter)

\* C3 as stated: when a filter is given the call returns rawResult[filter],
\* a lookup error when the key is absent; when none is given it returns
\* the raw result.
C3_FilterAsStated ==
    Answered =>
        IF "filter" \in DOMAIN cOp.kwargs
        THEN cOut.result = Lookup(Reply(cOp.reply), cOp.kwargs["filter"])
        ELSE cOut.result = Reply(cOp.reply)

\* C3, amended: when a non-empty filter is given the call returns
\* rawResult[filter], a lookup error when the key is absent; when no
\* filter is given, or the filter given is empty, it returns the raw
\* result unchanged.
C3_FilterNonEmpty ==
    Answered =>
        IF "filter" \in DOMAIN cOp.kwargs /\ cOp.kwargs["filter"] # Name("")
        THEN /\ cOut.result
                   = Lookup(Reply(cOp.reply), cOp.kwargs["filter"])
             /\ cOp.kwargs["filter"] = Name("user") => cOut.result = Full
             /\ cOp.kwargs["filter"] = Name("missing") =>
                   cOut.result = Raise("KeyError", Name("missing"))
        ELSE cOut.result = Reply(cOp.reply)

\* calls with a filter that names a key, and with the empty filter
C3_Witness ==
    /\ Answered
    /\ "filter" \in DOMAIN cOp.kwargs
    /\ cOp.kwargs["filter"] = Name("")
    /\ cOut.result = Wrapped

----------------------------------------------------------------------------
(* Properties of typed retrieval (SpecTyped) *)

\* the record the Issue type constructs from a decoded mapping
ExpectedRecord(value) ==
    CASE value = Full ->
           Instance([created_at |-> Datetime(2012, 2, 29, 23, 5, 59, 0),
                     title |-> TitleSample,
                     extra |-> GithubSample])
      [] value = Sparse ->
           Instance([created_at |-> None, number |-> PyInt(7)])

\* the transport result of the last call, filtered
Filtered ==
    IF "filter" \in DOMAIN cOp.kwargs
    THEN Lookup(Reply(cOp.reply), cOp.kwargs["filter"])
    ELSE Reply(cOp.reply)

\* the last call was typed retrieval and it got a (filtered) result
Retrieved(op) ==
    /\ cOp.op = op
    /\ ~IsRaise(Reply(cOp.reply))
    /\ ~IsRaise(Filtered)

\* C8: get_values with a datatype returns one record per element of the
\* filtered transport result, in order, each constructed from the element
\* with its keys as plain strings and the conversions of the schema
\* applied; without a datatype it returns the sequence unchanged.
\* get_value does the same for one mapping.
C8_TypedRetrieval ==
    /\ Retrieved("get_values") =>
          IF "datatype" \notin DOMAIN cOp.kwargs
          THEN cOut.result = Filtered
          ELSE (/\ Filtered.t = "list"
                /\ \A i \in 1..Len(Filtered.v) :
                      Filtered.v[i] \in {Full, Sparse}) =>
                   cOut.result
                      = List([i \in 1..Len(Filtered.v) |->
                                 ExpectedRecord(Filtered.v[i])])
    /\ Retrieved("get_value") =>
          IF "datatype" \notin DOMAIN cOp.kwargs
          THEN cOut.result = Filtered
          ELSE Filtered \in {Full, Sparse} =>
                  cOut.result = ExpectedRecord(Filtered)

\* get_values with a datatype made two records of a filtered list, in
\* the order of the list
C8_Witness ==
    /\ Retrieved("get_values")
    /\ "datatype" \in DOMAIN cOp.kwargs
    /\ "filter" \in DOMAIN cOp.kwargs
    /\ cOp.kwargs["filter"] = Name("items")
    /\ cOut.result = List(<<ExpectedRecord(Sparse), ExpectedRecord(Full)>>)
    /\ cOut.result.v[2].vars["created_at"]
          = Datetime(2012, 2, 29, 23, 5, 59, 0)

\* C9: every call of make_request, get_value or get_values issues exactly
\* one transport operation; when the transport raises, the call raises
\* that error unchanged, issues no second operation, indexes nothing by
\* the filter and constructs no record.
C9_OneTransportCall ==
    /\ sent = calls
    /\ cOp.op # "none" =>
          /\ Len(cOut.wire) = 1
          /\ IsRaise(Reply(cOp.reply)) =>
                /\ cOut.result = Reply(cOp.reply)
                /\ ~cOut.filtered
                /\ cOut.built = 0

\* the transport raised under get_values with a filter and a datatype
C9_Witness ==
    /\ calls = 2
    /\ sent = 2
    /\ cOp.op = "get_values"
    /\ DOMAIN cOp.kwargs = {"filter", "datatype", "post_data"}
    /\ cOp.reply = "error"
    /\ cOut.result = TransportError
    /\ Len(cOut.wire) = 1

====
